---- MODULE Spec2Model ----
(***************************************************************************)
(* Fireproof: the document store (packages/fireproof/src/fireproof.js) and *)
(* the secondary index engine (DbIndex).  The store owns a Merkle clock    *)
(* over an append-only event log kept in a shared block store; the index   *)
(* derives an id-index and a key-index from the store's change feed.       *)
(*                                                                         *)
(* Asynchronous code is cut at its awaits: every action is the code that   *)
(* runs between one suspension and the next.                               *)
(***************************************************************************)
EXTENDS Integers, Sequences, FiniteSets, TLC

(***************************************************************************)
(* Bounds of the model.                                                    *)
(***************************************************************************)
MaxCalls == 2      \* calls issued in one run of the store under concurrent callers
MaxOps == 3        \* calls issued in one run of the store under one caller
MaxRegs == 2       \* listener registrations made in one run
MaxPasses == 3     \* updateIndex passes started in one run
MaxFlightOps == 2  \* put and del calls in one run of the index under two callers
MaxRegOps == 2         \* put and del calls issued next to registrations
MaxInstances == 3      \* DbIndex instances constructed per opening of the store
MaxOpens == 1          \* reopenings of the store from its persisted state
MaxQueryOps == 2       \* put and del calls issued before a query
MaxQueries == 1        \* queries answered in one run
MaxLiveOps == 2        \* put and del calls issued while updates run
MaxLivePasses == 2     \* update passes that run next to put and del calls

(***************************************************************************)
(* Values.  A document body is its field x; Null is the tombstone a del *)
(* writes, Absent the lookup of a key that was never written.              *)
(***************************************************************************)
Null == 0
Absent == -1
Bodies == {1, 2}              \* the document bodies {x: 1} and {x: 2}

NoId == ""                    \* a put whose document carries no _id
GenId == "f"                  \* the id put generates ('f' + random digits)
Ids == {"a", GenId}
Stores == {"db", "snap"}
Callers == {"c1", "c2"}
Fns == {"L1", "L2"}           \* listener callbacks
IndexCallers == {"u1", "u2"}  \* callers of updateIndex
Hooks == {"none", "denyDelete", "denyOverwrite"}

NullClock == <<0>>            \* "no clock": null / undefined (event ids start at 1)
EmptyDoc == [_id |-> "", body |-> Absent, deleted |-> FALSE]   \* {}

VARIABLES
  events,      \* the event log in the shared block store: event id -> event
  clock,       \* clock[s]: this.clock of store instance s
  exists,      \* exists[s]: the instance has been constructed
  hook,        \* hook[s]: config.validateChange of instance s
  listeners,   \* listeners[s]: #listeners, a Set in insertion order
  calls,       \* calls[c]: the call caller c has in flight
  ncalls,      \* calls issued so far
  nregs,       \* registrations made so far
  committed,   \* committed[s]: events whose commit this.clock adopted
  snapArg,     \* the clock argument snapshot() was called with
  hist,        \* the put and del calls that returned, in order
  index,       \* the DbIndex instance bound to store "db"
  pass,        \* the innerUpdateIndex pass in flight
  heads,       \* the values dbHead has been given, in order
  waiters,     \* waiters[u]: the updateIndex call caller u has in flight
  other,       \* the DbIndex instance of the same source text left out of database.indexes
  saved,       \* the persisted descriptor: the last toJSON() of the registered index
  opens,       \* how many times the store has been reopened from its persisted state
  ninst,       \* DbIndex instances constructed since the store was opened
  answer       \* the last query of the index and the rows it returned

storeVars == <<events, clock, exists, hook, listeners, calls, ncalls, nregs, committed, snapArg>>
regVars == <<other, saved, opens, ninst>>
indexVars == <<index, pass, heads, waiters, regVars, answer>>
passFrame == <<storeVars, hist, waiters, regVars, answer>>    \* what a step of a pass leaves alone
callFrame == <<storeVars, hist, regVars, answer>>    \* what a call of updateIndex leaves alone
rest == <<hist, indexVars>>
vars == <<storeVars, hist, indexVars>>

(***************************************************************************)
(* The Merkle-clock engine (prolly.js): put, get, getAll, eventsSince.     *)
(***************************************************************************)
RECURSIVE Reach(_)
\* the events a clock references, directly or through parents
Reach(clk) ==
  IF clk = <<>> THEN {}
  ELSE LET e == Head(clk)
       IN  {e} \cup Reach(events[e].parents) \cup Reach(Tail(clk))

RECURSIVE ApplyEvents(_, _, _)
\* the key -> value map after the events of set S, in causal order from event n
ApplyEvents(S, n, m) ==
  IF n > Len(events) THEN m
  ELSE ApplyEvents(S, n + 1,
         IF n \in S THEN [m EXCEPT ![events[n].key] = events[n].value] ELSE m)

\* root(blocks, head): the document map the clock resolves to
Root(clk) == ApplyEvents(Reach(clk), 1, [i \in Ids |-> Absent])

\* get(blocks, clock, key) -> value | null
EngineGet(clk, key) == LET v == Root(clk)[key] IN IF v = Absent THEN Null ELSE v

\* put(blocks, clock, event) -> {head, id}: the event appended with the
\* clock as its parents; the new head is the event alone
EnginePutEvent(clk, ev) == [key |-> ev.key, value |-> ev.value, type |-> "put", parents |-> clk]
EnginePutHead(n) == <<n>>

RECURSIVE SeqOfSet(_)
\* a set of integers as the ascending sequence
SeqOfSet(S) ==
  IF S = {} THEN <<>>
  ELSE LET lo == CHOOSE x \in S : \A y \in S : x <= y
       IN  <<lo>> \o SeqOfSet(S \ {lo})

\* eventsSince(blocks, clock, since) -> [{key, type, value}]: the events of
\* clock that since does not reference, oldest first
EventsSince(clk, since) ==
  LET ids == SeqOfSet(Reach(clk) \ Reach(since))
  IN  [i \in 1..Len(ids) |->
         [key |-> events[ids[i]].key, type |-> events[ids[i]].type,
          value |-> events[ids[i]].value]]

RECURSIVE KeySeq(_)
\* keys in the tree's order
KeySeq(S) ==
  IF S = {} THEN <<>>
  ELSE LET k == IF "a" \in S THEN "a" ELSE CHOOSE x \in S : TRUE
       IN  <<k>> \o KeySeq(S \ {k})

\* getAll(blocks, clock) -> [{key, value}]: every entry of the tree
GetAll(clk) ==
  LET ks == KeySeq({i \in Ids : Root(clk)[i] # Absent})
  IN  [i \in 1..Len(ks) |-> [key |-> ks[i], value |-> Root(clk)[ks[i]]]]

(***************************************************************************)
(* Fireproof: reads.                                                       *)
(***************************************************************************)
NotFound == [ok |-> FALSE, doc |-> EmptyDoc]

\* get without the tombstone check: the stored null comes back as a document
GetAtKeepsTombstone(clk, key) ==
  [ok |-> TRUE, doc |-> [_id |-> key, body |-> EngineGet(clk, key), deleted |-> FALSE]]

\* the outcome of get(key) run against a clock
GetAt(clk, key) ==
  LET got == EngineGet(clk, key)
  IN  IF got = Null THEN NotFound
      ELSE [ok |-> TRUE, doc |-> [_id |-> key, body |-> got, deleted |-> FALSE]]

Get(s, key) == GetAt(clock[s], key)

(***************************************************************************)
(* Fireproof: changesSince.                                                *)
(***************************************************************************)
\* a row of the change feed: { key, value } or { key, del: true }
ValueRow(key, value) == [key |-> key, value |-> value, del |-> FALSE]
DelRow(key) == [key |-> key, value |-> Absent, del |-> TRUE]

\* the row docsMap.set stores for an event
RowOfEvent(e) == IF e.type = "del" THEN DelRow(e.key) ELSE ValueRow(e.key, e.value)

RECURSIVE DocsMap(_, _)
\* docsMap after the events of resp: a Map keeps the place of a key's first
\* set and the value of its last
DocsMap(resp, rows) ==
  IF resp = <<>> THEN rows
  ELSE LET r == RowOfEvent(Head(resp))
           hit == {j \in 1..Len(rows) : rows[j].key = r.key}
       IN  DocsMap(Tail(resp),
             IF hit = {} THEN Append(rows, r)
             ELSE [j \in 1..Len(rows) |-> IF j \in hit THEN r ELSE rows[j]])

\* the rows of changesSince(event) computed against the clock read at the call
ChangesRows(clk, event) ==
  IF event # NullClock
  THEN DocsMap(EventsSince(clk, event), <<>>)
  ELSE [i \in 1..Len(GetAll(clk)) |-> ValueRow(GetAll(clk)[i].key, GetAll(clk)[i].value)]

\* changesSince(event) with nothing running between its call and its return
ChangesSince(s, event) == [rows |-> ChangesRows(clock[s], event), clock |-> clock[s]]

(***************************************************************************)
(* The chunked-tree primitive (prolly-trees/db-index) and the key encoding  *)
(* (charwise).  A tree is the set of its entries; a content identifier     *)
(* names the content, so a cid is modelled by the content it names.  An    *)
(* absent root or cid is <<>>, a present one <<content>>.                  *)
(***************************************************************************)
NoTree == <<>>
Tree(content) == <<content>>
ContentOf(t) == t[1]

\* charwise.encode / charwise.decode of a number: a tagged, ordered form
Encode(k) == <<"F", k>>
Decode(ek) == ek[2]

RECURSIVE BulkApply(_, _)
\* root.bulk(entries): removals and puts applied in the order given, one
\* entry per key
BulkApply(content, entries) ==
  IF entries = <<>> THEN content
  ELSE LET e == Head(entries)
           without == {x \in content : x.key # e.key}
       IN  BulkApply(IF e.del THEN without ELSE without \cup {[key |-> e.key, value |-> e.value]},
                     Tail(entries))

\* the order of document ids (simpleCompare on the two ids of the model)
IdRank(id) == IF id = "a" THEN 1 ELSE 2

\* compare on composite keys [encodedKey, docId]
KeyLess(a, b) == a[1][2] < b[1][2] \/ (a[1][2] = b[1][2] /\ IdRank(a[2]) < IdRank(b[2]))

RECURSIVE SortEntries(_)
\* the entries of a key-index in the order of compare
SortEntries(S) ==
  IF S = {} THEN <<>>
  ELSE LET lo == CHOOSE x \in S : \A y \in S : y = x \/ KeyLess(x.key, y.key)
       IN  <<lo>> \o SortEntries(S \ {lo})

RECURSIVE GetMany(_, _)
\* root.getMany(keys).result: the values stored under the keys
GetMany(content, keys) ==
  IF keys = <<>> THEN <<>>
  ELSE LET hit == {x \in content : x.key = Head(keys)}
       IN  (IF hit = {} THEN <<>> ELSE <<(CHOOSE x \in hit : TRUE).value>>)
           \o GetMany(content, Tail(keys))

(***************************************************************************)
(* DbIndex: map functions and index entries.                               *)
(***************************************************************************)
Undefined == Absent
MapFns == {"byX", "byOne", "ifOne", "byXY"}
OneToManyFns == {"twice"}     \* map functions that emit several keys for a document
NoMapFn == ""                 \* an index built from source text alone: this.mapFn is unset

\* makeDoc({ key, value }): { _id: key, ...value }
MakeDoc(key, value) == [_id |-> key, x |-> value]

\* the emit calls of a map function on a document, in order:
\*   byX:   emit(doc.x, doc.x * 10)
\*   byOne: emit(1, doc.x)
\*   ifOne: if (doc.x === 1) emit(doc.x, doc.x)
\*   byXY:  emit(doc.x, doc.y)          the documents carry no field y
\*   twice: emit(doc.x, doc.x); emit(doc.x + 2, doc.x)
Emits(fn, doc) ==
  CASE fn = "byX" -> << <<doc.x, doc.x * 10>> >>
    [] fn = "byOne" -> << <<1, doc.x>> >>
    [] fn = "ifOne" -> IF doc.x = 1 THEN << <<doc.x, doc.x>> >> ELSE <<>>
    [] fn = "byXY" -> << <<doc.x, Undefined>> >>
    [] fn = "twice" -> << <<doc.x, doc.x>>, <<doc.x + 2, doc.x>> >>
    [] OTHER -> <<>>

RECURSIVE EntriesOfEmits(_, _)
\* the emit callback: an undefined key or value is dropped
EntriesOfEmits(ems, key) ==
  IF ems = <<>> THEN <<>>
  ELSE LET k == Head(ems)[1]
           v == Head(ems)[2]
       IN  (IF v = Undefined \/ k = Undefined THEN <<>>
            ELSE <<[key |-> <<Encode(k), key>>, value |-> v, del |-> FALSE]>>)
           \o EntriesOfEmits(Tail(ems), key)

\* an indexEntriesForChanges that maps deleted rows like any other
SkipsRowNever(row) == FALSE

\* the rows indexEntriesForChanges skips: if (del || !value) return
SkipsRow(row) == row.del \/ row.value = Null \/ row.value = Absent

RECURSIVE IndexEntriesForChanges(_, _)
\* indexEntriesForChanges(changes, mapFn)
IndexEntriesForChanges(changes, fn) ==
  IF changes = <<>> THEN <<>>
  ELSE LET row == Head(changes)
       IN  (IF SkipsRow(row) THEN <<>>
            ELSE EntriesOfEmits(Emits(fn, MakeDoc(row.key, row.value)), row.key))
           \o IndexEntriesForChanges(Tail(changes), fn)

(***************************************************************************)
(* DbIndex: construction, loadIndex, bulkIndex, doIndexQuery.              *)
(***************************************************************************)
\* new DbIndex(database, mapFn): no roots, no dbHead, no update in progress
NewIndex(fn) ==
  [mapFn |-> fn,
   indexById |-> [root |-> NoTree, cid |-> NoTree],
   indexByKey |-> [root |-> NoTree, cid |-> NoTree],
   dbHead |-> NullClock,
   updateIndexPromise |-> FALSE]

\* no instance (the slot of the instance left out of the registry is empty)
NoInstance == [NewIndex(NoMapFn) EXCEPT !.mapFn = "no instance"]

\* no descriptor has been persisted
NoDescriptor == <<>>

IdlePass ==
  [pc |-> "idle", n |-> 0, last |-> "", event |-> NullClock, rclock |-> NullClock,
   rows |-> <<>>, clock |-> NullClock, byId |-> <<>>, byKey |-> <<>>]

\* a caller of updateIndex: the promise it was handed (the number of the pass
\* behind it), where that pass stood and what the index held at the call,
\* and, once it resumes, the outcome and the dbHead it observes; since is the
\* clock of the last put or del that had returned when the call was made
NoRoots == <<NoTree, NoTree, NullClock>>
IdleWaiter ==
  [pc |-> "idle", p |-> 0, at |-> "", outcome |-> "", before |-> NoRoots, dbHead |-> NullClock,
   since |-> NullClock]

\* the persisted identity of an index: both root identifiers and dbHead
Roots(ix) == <<ix.indexById.cid, ix.indexByKey.cid, ix.dbHead>>

\* loadIndex(blocks, index, opts): the root is loaded from the cid, if any
LoadIndex(ix) == IF ix.root = NoTree /\ ix.cid # NoTree THEN [ix EXCEPT !.root = ix.cid] ELSE ix

\* bulkIndex(blocks, inIndex, indexEntries, opts)
BulkIndex(ix, entries) ==
  IF entries = <<>> THEN ix
  ELSE LET base == IF ix.root # NoTree THEN ContentOf(ix.root)
                   ELSE IF ix.cid # NoTree THEN ContentOf(ix.cid) ELSE {}
           new == Tree(BulkApply(base, entries))
       IN  [root |-> new, cid |-> new]

\* applyLimit / the scan branch of doIndexQuery, and the decoding of query
ScanRows(ix) ==
  LET lx == LoadIndex(ix)
      es == IF lx.root = NoTree THEN <<>> ELSE SortEntries(ContentOf(lx.root))
  IN  [i \in 1..Len(es) |->
         [id |-> es[i].key[2], key |-> Decode(es[i].key[1]), value |-> es[i].value]]

\* a query: the properties it has (a property it lacks is undefined) and
\* their values; limit is a row count
QueryOf(has, range, key, limit) ==
  [has |-> has,
   range |-> IF "range" \in has THEN range ELSE <<>>,
   key |-> IF "key" \in has THEN key ELSE 0,
   limit |-> IF "limit" \in has THEN limit ELSE 0]

Ranges == {<<1, 1>>, <<1, 2>>}
QueryKeys == {0, 1}
Limits == {1, 2}
Queries ==
  {QueryOf(has, r, k, n) : has \in SUBSET {"range", "key", "limit"},
                           r \in Ranges, k \in QueryKeys, n \in Limits}

NoAnswer == [n |-> 0, query |-> QueryOf({}, <<>>, 0, 0), rows |-> <<>>]

\* root.range(lower, upper).result: the entries whose key lies within the
\* inclusive range, in the order of compare
RangeEntries(content, lower, upper) ==
  SortEntries({e \in content : lower[2] <= e.key[1][2] /\ e.key[1][2] <= upper[2]})

\* root.get(encodedKey).result: the entries emitted under the key
GetEntries(content, encodedKey) == SortEntries({e \in content : e.key[1] = encodedKey})

\* results.result.slice(0, limit): everything when limit is undefined
ApplyLimit(result, query) ==
  IF "limit" \notin query.has THEN result
  ELSE SubSeq(result, 1, IF query.limit < Len(result) THEN query.limit ELSE Len(result))

\* doIndexQuery(blocks, indexByKey, query): the range branch and the scan
\* branch pass their result to applyLimit, the key branch returns what
\* root.get gives; a key that is falsy (0) leads to the scan branch
DoIndexQuery(ix, query) ==
  LET lx == LoadIndex(ix)
  IN  IF lx.root = NoTree THEN <<>>
      ELSE IF "range" \in query.has
      THEN ApplyLimit(RangeEntries(ContentOf(lx.root), Encode(query.range[1]), Encode(query.range[2])), query)
      ELSE IF "key" \in query.has /\ query.key # 0
      THEN GetEntries(ContentOf(lx.root), Encode(query.key))
      ELSE ApplyLimit(SortEntries(ContentOf(lx.root)), query)

\* the rows of query(): each entry decoded into { id, key, value }
QueryRows(es) ==
  [i \in 1..Len(es) |-> [id |-> es[i].key[2], key |-> Decode(es[i].key[1]), value |-> es[i].value]]

(***************************************************************************)
(* Fireproof: construction.                                                *)
(***************************************************************************)
\* authCtx of an instance: the one given to the constructor, {} by default
AuthCtx(s) == IF s = "db" THEN "ctx" ELSE "{}"

IdleCall ==
  [pc |-> "idle", op |-> "", store |-> "", id |-> "", body |-> Null,
   clock0 |-> NullClock, nev0 |-> 0, rclock |-> NullClock,
   pos |-> 0, cur |-> "", ninv |-> 0, ev |-> 0, seen |-> NullClock,
   ret |-> NullClock, hargs |-> <<>>]

\* Fireproof.storage() / new Fireproof(blocks, [], config, authCtx) with the
\* validation hook hk, and new DbIndex(database, fn)
InitWith(hk, fn) ==
  /\ events = <<>>
  /\ clock = [s \in Stores |-> <<>>]
  /\ exists = [s \in Stores |-> s = "db"]
  /\ hook = [s \in Stores |-> IF s = "db" THEN hk ELSE "none"]
  /\ listeners = [s \in Stores |-> <<>>]
  /\ calls = [c \in Callers |-> IdleCall]
  /\ ncalls = 0
  /\ nregs = 0
  /\ committed = [s \in Stores |-> {}]
  /\ snapArg = NullClock
  /\ hist = <<>>
  /\ index = NewIndex(fn)
  /\ pass = IdlePass
  /\ heads = <<>>
  /\ waiters = [u \in IndexCallers |-> IdleWaiter]
  /\ other = NoInstance
  /\ saved = NoDescriptor
  /\ opens = 0
  /\ ninst = 1
  /\ answer = NoAnswer

Init == \E hk \in Hooks : InitWith(hk, "byX")

\* the clocks a caller can hold: the empty clock and every event's head
KnownClocks == {<<>>} \cup {<<e>> : e \in 1..Len(events)}

\* snapshot(clock): clock || this.clock
SnapshotClock(s, clk) == IF clk = NullClock THEN clock[s] ELSE clk

\* snapshot(clock): a new instance on the same blocks, with the default
\* config and no listeners
Snapshot(clk) ==
  /\ ~exists["snap"]
  /\ exists' = [exists EXCEPT !["snap"] = TRUE]
  /\ clock' = [clock EXCEPT !["snap"] = SnapshotClock("db", clk)]
  /\ snapArg' = clk
  /\ UNCHANGED <<events, hook, listeners, calls, ncalls, nregs, committed>>

(***************************************************************************)
(* Fireproof: listeners.                                                   *)
(***************************************************************************)
\* #listeners is a Set: its entries in insertion order.  A for-of over it
\* is live: an iterator holds the place of the entry it visited last, and a
\* deletion at or before that place moves the place with the entries.
IsLive(s, fn) == \E j \in 1..Len(listeners[s]) : listeners[s][j] = fn

IndexOf(L, fn) == CHOOSE j \in 1..Len(L) : L[j] = fn

\* Set.add: a callback already in the set keeps its place
SetAdd(L, fn) == IF \E j \in 1..Len(L) : L[j] = fn THEN L ELSE Append(L, fn)

\* Set.delete
SetDelete(L, fn) ==
  IF \E j \in 1..Len(L) : L[j] = fn
  THEN LET k == IndexOf(L, fn)
       IN  [j \in 1..(Len(L) - 1) |-> IF j < k THEN L[j] ELSE L[j + 1]]
  ELSE L

\* the place of an iterator after the entry at place k was deleted
IterAfterDelete(pos, k) == IF k <= pos THEN pos - 1 ELSE pos

\* the for-of over the Set: the entry after place pos, 0 at the end
NextListener(s, pos) == IF pos < Len(listeners[s]) THEN pos + 1 ELSE 0

\* registerListener(listener)
RegisterListener(s, fn) ==
  /\ exists[s]
  /\ nregs < MaxRegs
  /\ ~IsLive(s, fn)
  /\ listeners' = [listeners EXCEPT ![s] = SetAdd(@, fn)]
  /\ nregs' = nregs + 1
  /\ UNCHANGED <<events, clock, exists, hook, calls, ncalls, committed, snapArg>>

\* the handle registerListener returned
Unregister(s, fn) ==
  /\ IsLive(s, fn)
  /\ listeners' = [listeners EXCEPT ![s] = SetDelete(@, fn)]
  /\ calls' = [c \in Callers |->
       IF calls[c].pc = "notifying" /\ calls[c].store = s
       THEN [calls[c] EXCEPT !.pos = IterAfterDelete(@, IndexOf(listeners[s], fn))]
       ELSE calls[c]]
  /\ UNCHANGED <<events, clock, exists, hook, ncalls, nregs, committed, snapArg>>

(***************************************************************************)
(* Fireproof: put, del, setClock.                                          *)
(***************************************************************************)
\* del validating { _id } without the _deleted marker
NewDocNoTombstone(call) == [_id |-> call.id, body |-> call.body, deleted |-> FALSE]

\* the document handed to #runValidation: { _id, ...doc }, or the tombstone
\* marker { _id, _deleted: true }
NewDoc(call) ==
  IF call.op = "del" THEN [_id |-> call.id, body |-> Absent, deleted |-> TRUE]
  ELSE [_id |-> call.id, body |-> call.body, deleted |-> FALSE]

\* this.get(doc._id).then(doc => doc).catch(() => ({}))
OldDoc(clk, id) == IF GetAt(clk, id).ok THEN GetAt(clk, id).doc ELSE EmptyDoc

\* config.validateChange(newDoc, oldDoc, authCtx) throws
HookThrows(h, new, old, auth) ==
  CASE h = "denyDelete" -> new.deleted
    [] h = "denyOverwrite" -> old # EmptyDoc
    [] OTHER -> FALSE

\* const id = _id || 'f' + Math.random()...
PutId(idIn) == IF idIn = NoId THEN GenId ELSE idIn

\* the event put and del hand to #putToProllyTree
EventOf(call) == [key |-> call.id, value |-> call.body]

\* put / del up to the first await: #runValidation starts, and with a hook
\* configured calls this.get against the current clock
Issue(c, s, op, idIn, b) ==
  /\ calls[c].pc = "idle"
  /\ exists[s]
  /\ calls' = [calls EXCEPT ![c] =
       [IdleCall EXCEPT !.pc = "validating", !.op = op, !.store = s,
                        !.id = IF op = "put" THEN PutId(idIn) ELSE idIn,
                        !.body = IF op = "put" THEN b ELSE Null,
                        !.clock0 = clock[s], !.nev0 = Len(events),
                        !.rclock = IF hook[s] # "none" THEN clock[s] ELSE NullClock]]
  /\ ncalls' = ncalls + 1
  /\ UNCHANGED <<events, clock, exists, hook, listeners, nregs, committed, snapArg>>

IssuePut(c, s, idIn, b) == Issue(c, s, "put", idIn, b)
IssueDel(c, s, id) == Issue(c, s, "del", id, Null)

\* the arguments the hook is called with
HookArgs(call) ==
  IF hook[call.store] = "none" THEN <<>>
  ELSE <<NewDoc(call), OldDoc(call.rclock, call.id), AuthCtx(call.store)>>

Rejects(call) ==
  /\ hook[call.store] # "none"
  /\ HookThrows(hook[call.store], NewDoc(call), OldDoc(call.rclock, call.id), AuthCtx(call.store))

\* #runValidation resumes and the hook throws: put / del reject with its error
ValidationRejects(c) ==
  /\ calls[c].pc = "validating"
  /\ Rejects(calls[c])
  /\ calls' = [calls EXCEPT ![c].pc = "rejected", ![c].hargs = HookArgs(calls[c])]
  /\ UNCHANGED <<events, clock, exists, hook, listeners, ncalls, nregs, committed, snapArg>>

\* validation passes: #putToProllyTree opens the transaction, whose closure
\* reads this.clock as it calls the engine's put
ValidationPasses(c) ==
  /\ calls[c].pc = "validating"
  /\ ~Rejects(calls[c])
  /\ calls' = [calls EXCEPT ![c].pc = "txn", ![c].hargs = HookArgs(calls[c]),
                            ![c].rclock = clock[calls[c].store]]
  /\ UNCHANGED <<events, clock, exists, hook, listeners, ncalls, nregs, committed, snapArg>>

\* the head written through a clock array the instances share
AdoptClockShared(s, head) == [t \in Stores |-> head]

\* this.clock = result.head
AdoptClock(s, head) == [clock EXCEPT ![s] = head]

\* #notifyListeners up to its first await: the first listener is called and
\* sees the clock as it stands (clk)
StartNotify(call, s, clk) ==
  LET j == NextListener(s, 0)
  IN  [call EXCEPT !.pc = "notifying", !.pos = j,
                   !.cur = IF j > 0 THEN listeners[s][j] ELSE "",
                   !.ninv = IF j > 0 THEN 1 ELSE 0,
                   !.seen = IF j > 0 THEN clk ELSE NullClock]

\* #putToProllyTree notifying before it looks at the result
AfterTxnNotifiesFirst(call, s, ok, n) ==
  IF ~ok THEN [StartNotify(call, s, clock[s]) EXCEPT !.pc = "failed", !.pos = 0, !.cur = ""]
  ELSE StartNotify([call EXCEPT !.ev = n], s, EnginePutHead(n))

\* #putToProllyTree after the transaction: if (!result) throw; adopt the
\* head; notify
AfterTxn(call, s, ok, n) ==
  IF ~ok THEN [call EXCEPT !.pc = "failed"]
  ELSE StartNotify([call EXCEPT !.ev = n], s, EnginePutHead(n))

\* the transaction resolves, with the engine's result or with none
TxnResolves(c, ok) ==
  LET call == calls[c]
      s == call.store
      n == Len(events) + 1
  IN  /\ call.pc = "txn"
      /\ events' = IF ok THEN Append(events, EnginePutEvent(call.rclock, EventOf(call)))
                   ELSE events
      /\ clock' = IF ok THEN AdoptClock(s, EnginePutHead(n)) ELSE clock
      /\ committed' = IF ok THEN [committed EXCEPT ![s] = @ \cup {n}] ELSE committed
      /\ calls' = [calls EXCEPT ![c] = AfterTxn(call, s, ok, n)]
      /\ UNCHANGED <<exists, hook, listeners, ncalls, nregs, snapArg>>

\* clock.map((item) => (item['/'] ? item['/'] : item))
NormalizeItem(item) == IF "slash" \in DOMAIN item THEN item.slash ELSE item.cid
NormalizeClock(items) == [i \in 1..Len(items) |-> NormalizeItem(items[i])]
\* a clock as a caller passes it: plain CIDs, or links {'/': cid}
ClockInput(clk, linked) ==
  [i \in 1..Len(clk) |-> IF linked THEN [slash |-> clk[i]] ELSE [cid |-> clk[i]]]

\* setClock(clock) up to its first await
SetClock(c, s, clk, linked) ==
  /\ calls[c].pc = "idle"
  /\ exists[s]
  /\ clock' = AdoptClock(s, NormalizeClock(ClockInput(clk, linked)))
  /\ committed' = [committed EXCEPT ![s] = {}]
  /\ calls' = [calls EXCEPT ![c] =
       StartNotify([IdleCall EXCEPT !.op = "setClock", !.store = s,
                                    !.clock0 = clock[s], !.nev0 = Len(events)],
                   s, NormalizeClock(ClockInput(clk, linked)))]
  /\ ncalls' = ncalls + 1
  /\ UNCHANGED <<events, exists, hook, listeners, nregs, snapArg>>

\* the awaited listener settles: the loop calls the next one, or the call
\* returns { id, clock: this.clock }
ListenerDone(c) ==
  LET call == calls[c]
      s == call.store
      j == IF call.cur = "" THEN 0 ELSE NextListener(s, call.pos)
  IN  /\ call.pc = "notifying"
      /\ calls' = [calls EXCEPT ![c] =
           IF j > 0 THEN [call EXCEPT !.pos = j, !.cur = listeners[s][j], !.ninv = @ + 1]
           ELSE [call EXCEPT !.pc = "done", !.pos = 0, !.cur = "", !.ret = clock[s]]]
      /\ UNCHANGED <<events, clock, exists, hook, listeners, ncalls, nregs, committed, snapArg>>

\* the caller takes the outcome of its call
Return(c) ==
  /\ calls[c].pc \in {"done", "failed", "rejected"}
  /\ calls' = [calls EXCEPT ![c] = IdleCall]
  /\ UNCHANGED <<events, clock, exists, hook, listeners, ncalls, nregs, committed, snapArg>>

(***************************************************************************)
(* The store under concurrent callers: one instance without a hook, two    *)
(* callers whose calls overlap, listeners coming and going.                *)
(***************************************************************************)
\* callers take the first free slot
FreeSlot(c) == calls[c].pc = "idle" /\ (c = "c2" => calls["c1"].pc # "idle")

InitStore == InitWith("none", "byX")

NextStore ==
  \/ \E fn \in Fns : RegisterListener("db", fn) /\ UNCHANGED rest
  \/ \E fn \in Fns : Unregister("db", fn) /\ UNCHANGED rest
  \/ \E c \in Callers, idIn \in Ids \cup {NoId}, b \in Bodies :
       ncalls < MaxCalls /\ FreeSlot(c) /\ IssuePut(c, "db", idIn, b) /\ UNCHANGED rest
  \/ \E c \in Callers, id \in Ids :
       ncalls < MaxCalls /\ FreeSlot(c) /\ IssueDel(c, "db", id) /\ UNCHANGED rest
  \/ \E c \in Callers, clk \in KnownClocks, linked \in BOOLEAN :
       ncalls < MaxCalls /\ FreeSlot(c) /\ SetClock(c, "db", clk, linked) /\ UNCHANGED rest
  \/ \E c \in Callers : ValidationPasses(c) /\ UNCHANGED rest
  \/ \E c \in Callers, ok \in BOOLEAN : TxnResolves(c, ok) /\ UNCHANGED rest
  \/ \E c \in Callers : ListenerDone(c) /\ UNCHANGED rest
  \/ \E c \in Callers : Return(c) /\ UNCHANGED rest

Spec == InitStore /\ [][NextStore]_vars

(***************************************************************************)
(* The store under one caller, which awaits each call before the next:     *)
(* one instance with any hook, listeners coming and going.  hist records   *)
(* the put and del calls that returned.                                    *)
(***************************************************************************)
\* the record of a returned put or del
HistEntry(call) == [id |-> call.id, value |-> call.body, clock |-> call.ret]

Recorded(c) ==
  /\ hist' = IF calls'[c].pc = "done" /\ calls'[c].op \in {"put", "del"}
             THEN Append(hist, HistEntry(calls'[c])) ELSE hist
  /\ UNCHANGED indexVars

NextSeq ==
  \/ \E fn \in Fns : RegisterListener("db", fn) /\ UNCHANGED rest
  \/ \E fn \in Fns : Unregister("db", fn) /\ UNCHANGED rest
  \/ \E idIn \in Ids \cup {NoId}, b \in Bodies :
       ncalls < MaxOps /\ IssuePut("c1", "db", idIn, b) /\ UNCHANGED rest
  \/ \E id \in Ids : ncalls < MaxOps /\ IssueDel("c1", "db", id) /\ UNCHANGED rest
  \/ ValidationRejects("c1") /\ UNCHANGED rest
  \/ ValidationPasses("c1") /\ UNCHANGED rest
  \/ \E ok \in BOOLEAN : TxnResolves("c1", ok) /\ UNCHANGED rest
  \/ ListenerDone("c1") /\ Recorded("c1")
  \/ Return("c1") /\ UNCHANGED rest

SpecSeq == Init /\ [][NextSeq]_vars

(***************************************************************************)
(* A store and its snapshot under one caller: put, del and setClock on     *)
(* either instance.                                                        *)
(***************************************************************************)
NextSnap ==
  \/ \E clk \in KnownClocks \cup {NullClock} : Snapshot(clk) /\ UNCHANGED rest
  \/ \E s \in Stores, idIn \in Ids \cup {NoId}, b \in Bodies :
       ncalls < MaxOps /\ IssuePut("c1", s, idIn, b) /\ UNCHANGED rest
  \/ \E s \in Stores, id \in Ids :
       ncalls < MaxOps /\ IssueDel("c1", s, id) /\ UNCHANGED rest
  \/ \E s \in Stores, clk \in KnownClocks, linked \in BOOLEAN :
       ncalls < MaxOps /\ SetClock("c1", s, clk, linked) /\ UNCHANGED rest
  \/ ValidationPasses("c1") /\ UNCHANGED rest
  \/ \E ok \in BOOLEAN : TxnResolves("c1", ok) /\ UNCHANGED rest
  \/ ListenerDone("c1") /\ UNCHANGED rest
  \/ Return("c1") /\ UNCHANGED rest

SpecSnap == InitStore /\ [][NextSnap]_vars

(***************************************************************************)
(* DbIndex: updateIndex and innerUpdateIndex.                              *)
(***************************************************************************)
\* a settled pass: the promise resolved ("ok") or rejected with an error
Settled(outcome) == [IdlePass EXCEPT !.pc = "settled", !.n = pass.n, !.last = outcome]

RowKeys(rows) == [i \in 1..Len(rows) |-> rows[i].key]

\* an update that never looks up the old entries of the changed ids
OldIndexEntriesNone(ix, rows) == <<>>

\* oldIndexEntries: the composite keys the id-index holds for the changed
\* ids, each marked for removal; none on a first build (dbHead unset)
OldIndexEntries(ix, rows) ==
  IF ix.dbHead = NullClock THEN <<>>
  ELSE LET old == GetMany(ContentOf(ix.indexById.root), RowKeys(rows))
       IN  [i \in 1..Len(old) |-> [key |-> old[i], value |-> Null, del |-> TRUE]]

\* removeByIdIndexEntries: the id-index entries of those composite keys
RemoveByIdIndexEntries(oldEntries) ==
  [i \in 1..Len(oldEntries) |-> [key |-> oldEntries[i].key[2], value |-> <<>>, del |-> TRUE]]

\* byIdIndexEntries: docId -> composite key, for every new index entry
ByIdIndexEntries(entries) ==
  [i \in 1..Len(entries) |-> [key |-> entries[i].key[2], value |-> entries[i].key, del |-> FALSE]]

\* updateIndex(blocks) with no update in progress: the pass starts and calls
\* changesSince(this.dbHead), which reads the store's clock for the engine
UpdateIndex ==
  /\ ~index.updateIndexPromise
  /\ pass.pc = "idle"
  /\ index' = [index EXCEPT !.updateIndexPromise = TRUE]
  /\ pass' = [IdlePass EXCEPT !.pc = "fetching", !.n = pass.n + 1,
                              !.event = index.dbHead, !.rclock = clock["db"]]
  /\ UNCHANGED heads

\* a pass that forgets dbHead when it finds nothing to do
ChangesReturnForgets ==
  LET rows == ChangesRows(pass.rclock, pass.event)
  IN  /\ pass.pc = "fetching"
      /\ IF rows = <<>>
         THEN /\ index' = [index EXCEPT !.dbHead = NullClock]
              /\ heads' = Append(heads, NullClock)
              /\ pass' = Settled("ok")
         ELSE /\ pass' = [pass EXCEPT !.pc = "txn", !.rows = rows, !.clock = clock["db"]]
              /\ UNCHANGED <<index, heads>>

\* changesSince returns { rows, clock: this.clock }; with no rows the pass
\* records the clock as dbHead and returns, else it opens the transaction
ChangesReturn ==
  LET rows == ChangesRows(pass.rclock, pass.event)
  IN  /\ pass.pc = "fetching"
      /\ IF rows = <<>>
         THEN /\ index' = [index EXCEPT !.dbHead = clock["db"]]
              /\ heads' = Append(heads, clock["db"])
              /\ pass' = Settled("ok")
         ELSE /\ pass' = [pass EXCEPT !.pc = "txn", !.rows = rows, !.clock = clock["db"]]
              /\ UNCHANGED <<index, heads>>

\* inside the transaction: both roots are loaded, the old entries of the
\* changed ids are looked up, the map function is required and run
TxnLoad ==
  LET loaded == [index EXCEPT !.indexById = LoadIndex(@), !.indexByKey = LoadIndex(@)]
      old == OldIndexEntries(loaded, pass.rows)
      new == IndexEntriesForChanges(pass.rows, index.mapFn)
  IN  /\ pass.pc = "txn"
      /\ index' = loaded
      /\ pass' =
           IF loaded.dbHead # NullClock /\ loaded.indexById.root = NoTree
           THEN Settled("TypeError")
           ELSE IF index.mapFn = NoMapFn THEN Settled("MissingMapFunction")
           ELSE [pass EXCEPT !.pc = "bulkById",
                             !.byId = RemoveByIdIndexEntries(old) \o ByIdIndexEntries(new),
                             !.byKey = old \o new]
      /\ UNCHANGED heads

\* this.indexById = await bulkIndex(...)
BulkById ==
  /\ pass.pc = "bulkById"
  /\ index' = [index EXCEPT !.indexById = BulkIndex(@, pass.byId)]
  /\ pass' = [pass EXCEPT !.pc = "bulkByKey"]
  /\ UNCHANGED heads

\* this.indexByKey = await bulkIndex(...); this.dbHead = result.clock
BulkByKey ==
  /\ pass.pc = "bulkByKey"
  /\ index' = [index EXCEPT !.indexByKey = BulkIndex(@, pass.byKey), !.dbHead = pass.clock]
  /\ heads' = Append(heads, pass.clock)
  /\ pass' = Settled("ok")

\* updateIndexPromise.finally(() => { this.updateIndexPromise = null })
Finally ==
  /\ pass.pc = "settled"
  /\ index' = [index EXCEPT !.updateIndexPromise = FALSE]
  /\ pass' = [pass EXCEPT !.pc = "idle"]
  /\ UNCHANGED heads

\* bulkIndex rejects (a block cannot be read or written): the assignment of
\* line 250 does not happen and the transaction's closure throws
BulkByIdFails ==
  /\ pass.pc = "bulkById"
  /\ pass' = Settled("StorageError")
  /\ UNCHANGED <<index, heads>>

\* the same for line 251, after line 250 has assigned this.indexById
BulkByKeyFails ==
  /\ pass.pc = "bulkByKey"
  /\ pass' = Settled("StorageError")
  /\ UNCHANGED <<index, heads>>

\* a pass is running: its promise is pending
InProgress == pass.pc \in {"fetching", "txn", "bulkById", "bulkByKey"}

\* the record of a caller that was handed the promise of pass n
Waiting(n) ==
  [IdleWaiter EXCEPT !.pc = "waiting", !.p = n, !.at = pass.pc, !.before = Roots(index),
                     !.since = IF hist = <<>> THEN <<>> ELSE hist[Len(hist)].clock]

\* an updateIndex that starts a pass whether or not one is in progress
CallUpdateIndexAlways(u) ==
  /\ waiters[u].pc # "waiting"
  /\ index' = [index EXCEPT !.updateIndexPromise = TRUE]
  /\ pass' = [IdlePass EXCEPT !.pc = "fetching", !.n = pass.n + 1,
                              !.event = index.dbHead, !.rclock = clock["db"]]
  /\ waiters' = [waiters EXCEPT ![u] = Waiting(pass.n + 1)]
  /\ UNCHANGED heads

\* updateIndex(blocks) called by u: the promise in updateIndexPromise is
\* handed out if there is one, else a pass is started
CallUpdateIndex(u) ==
  /\ waiters[u].pc # "waiting"
  /\ IF index.updateIndexPromise
     THEN /\ waiters' = [waiters EXCEPT ![u] = Waiting(pass.n)]
          /\ UNCHANGED <<index, pass, heads>>
     ELSE /\ UpdateIndex
          /\ waiters' = [waiters EXCEPT ![u] = Waiting(pass.n + 1)]

\* the await of caller u resumes with the outcome of the promise it holds
Resume(u) ==
  /\ waiters[u].pc = "waiting"
  /\ waiters[u].p = pass.n
  /\ pass.pc = "idle"
  /\ waiters' = [waiters EXCEPT ![u] = [@ EXCEPT !.pc = "done", !.outcome = pass.last,
                                                !.dbHead = index.dbHead]]
  /\ UNCHANGED <<index, pass, heads>>

(***************************************************************************)
(* The index over a store under one caller: puts and dels are awaited, and *)
(* an update runs with no store call in flight.                            *)
(***************************************************************************)
InitIdx == \E fn \in MapFns : InitWith("none", fn)

NoCallInFlight == \A c \in Callers : calls[c].pc = "idle"

NextIdx ==
  \/ \E idIn \in Ids \cup {NoId}, b \in Bodies :
       /\ ncalls < MaxOps /\ pass.pc = "idle"
       /\ IssuePut("c1", "db", idIn, b) /\ UNCHANGED rest
  \/ \E id \in Ids :
       /\ ncalls < MaxOps /\ pass.pc = "idle"
       /\ IssueDel("c1", "db", id) /\ UNCHANGED rest
  \/ ValidationPasses("c1") /\ UNCHANGED rest
  \/ \E ok \in BOOLEAN : TxnResolves("c1", ok) /\ UNCHANGED rest
  \/ ListenerDone("c1") /\ Recorded("c1")
  \/ Return("c1") /\ UNCHANGED rest
  \/ pass.n < MaxPasses /\ NoCallInFlight /\ UpdateIndex /\ UNCHANGED passFrame
  \/ ChangesReturn /\ UNCHANGED passFrame
  \/ TxnLoad /\ UNCHANGED passFrame
  \/ BulkById /\ UNCHANGED passFrame
  \/ BulkByKey /\ UNCHANGED passFrame
  \/ Finally /\ UNCHANGED passFrame

SpecIdx == InitIdx /\ [][NextIdx]_vars

(***************************************************************************)
(* The same with a map function that emits two keys for every document.    *)
(***************************************************************************)
InitMany == \E fn \in OneToManyFns : InitWith("none", fn)

SpecMany == InitMany /\ [][NextIdx]_vars

(***************************************************************************)
(* The index under two callers of updateIndex, with or without a live map  *)
(* function, over a block store whose reads and writes can fail.  The      *)
(* callers waiting on a settled promise resume before the next call.       *)
(***************************************************************************)
InitFlight == \E fn \in {"byX", NoMapFn} : InitWith("none", fn)

\* the callers are alike: u2 is the one that calls while u1 is waiting
SecondComer(u) == u = "u2" => waiters["u1"].pc = "waiting"

NoneResumable == \A u \in IndexCallers : waiters[u].pc = "waiting" => pass.pc # "idle"

NextFlight ==
  \/ \E idIn \in Ids \cup {NoId}, b \in Bodies :
       /\ ncalls < MaxFlightOps /\ pass.pc = "idle" /\ NoneResumable
       /\ IssuePut("c1", "db", idIn, b) /\ UNCHANGED rest
  \/ \E id \in Ids :
       /\ ncalls < MaxFlightOps /\ pass.pc = "idle" /\ NoneResumable
       /\ IssueDel("c1", "db", id) /\ UNCHANGED rest
  \/ ValidationPasses("c1") /\ UNCHANGED rest
  \/ \E ok \in BOOLEAN : TxnResolves("c1", ok) /\ UNCHANGED rest
  \/ ListenerDone("c1") /\ Recorded("c1")
  \/ Return("c1") /\ UNCHANGED rest
  \/ \E u \in IndexCallers :
       /\ index.updateIndexPromise \/ pass.n < MaxPasses
       /\ NoCallInFlight /\ NoneResumable /\ SecondComer(u)
       /\ CallUpdateIndex(u) /\ UNCHANGED callFrame
  \/ ChangesReturn /\ UNCHANGED passFrame
  \/ TxnLoad /\ UNCHANGED passFrame
  \/ BulkById /\ UNCHANGED passFrame
  \/ BulkByIdFails /\ UNCHANGED passFrame
  \/ BulkByKey /\ UNCHANGED passFrame
  \/ BulkByKeyFails /\ UNCHANGED passFrame
  \/ Finally /\ UNCHANGED passFrame
  \/ \E u \in IndexCallers : Resume(u) /\ UNCHANGED callFrame

SpecFlight == InitFlight /\ [][NextFlight]_vars

(***************************************************************************)
(* The index next to a caller of put and del that does not wait for the    *)
(* updates: a commit can fall anywhere between the steps of a pass, and a  *)
(* caller of updateIndex can come at any time.                             *)
(***************************************************************************)
NextLive ==
  \/ \E idIn \in Ids \cup {NoId}, b \in Bodies :
       ncalls < MaxLiveOps /\ IssuePut("c1", "db", idIn, b) /\ UNCHANGED rest
  \/ \E id \in Ids : ncalls < MaxLiveOps /\ IssueDel("c1", "db", id) /\ UNCHANGED rest
  \/ ValidationPasses("c1") /\ UNCHANGED rest
  \/ \E ok \in BOOLEAN : TxnResolves("c1", ok) /\ UNCHANGED rest
  \/ ListenerDone("c1") /\ Recorded("c1")
  \/ Return("c1") /\ UNCHANGED rest
  \/ \E u \in IndexCallers :
       /\ index.updateIndexPromise \/ pass.n < MaxLivePasses
       /\ NoneResumable /\ SecondComer(u)
       /\ CallUpdateIndex(u) /\ UNCHANGED callFrame
  \/ ChangesReturn /\ UNCHANGED passFrame
  \/ TxnLoad /\ UNCHANGED passFrame
  \/ BulkById /\ UNCHANGED passFrame
  \/ BulkByKey /\ UNCHANGED passFrame
  \/ Finally /\ UNCHANGED passFrame
  \/ \E u \in IndexCallers : Resume(u) /\ UNCHANGED callFrame

SpecLive == InitStore /\ [][NextLive]_vars

(***************************************************************************)
(* DbIndex: the registry database.indexes, toJSON and fromJSON.  All the   *)
(* instances are built for one source text, so the registry has one entry: *)
(* index is the instance it holds, other the instance it does not.         *)
(* A content identifier and its string form name the same block.           *)
(***************************************************************************)
\* toJSON().clock: { byId, byKey, db }
ToJSON(ix) == <<ix.indexById.cid, ix.indexByKey.cid, ix.dbHead>>

\* DbIndex.fromJSON(database, { code, clock }): new DbIndex(database, code,
\* clock) takes the source text alone and the identifiers of the descriptor
FromJSON(d) ==
  [NewIndex(NoMapFn) EXCEPT !.indexById.cid = d[1], !.indexByKey.cid = d[2], !.dbHead = d[3]]

\* a registry in which the incoming instance always replaces the entry
RegisterWithDatabaseLastWins(existingIndex, inIndex) ==
  [registered |-> inIndex, left |-> existingIndex]

\* registerWithDatabase(inIndex, database) when the source text is present:
\* an existing instance with a live function stays and takes the incoming
\* identifiers, else the incoming instance takes the existing ones and
\* replaces the entry
RegisterWithDatabase(existingIndex, inIndex) ==
  IF existingIndex.mapFn # NoMapFn
  THEN [registered |-> [existingIndex EXCEPT !.dbHead = inIndex.dbHead,
                                             !.indexById.cid = inIndex.indexById.cid,
                                             !.indexByKey.cid = inIndex.indexByKey.cid],
        left |-> inIndex]
  ELSE [registered |-> [inIndex EXCEPT !.dbHead = existingIndex.dbHead,
                                       !.indexById.cid = existingIndex.indexById.cid,
                                       !.indexByKey.cid = existingIndex.indexByKey.cid],
        left |-> existingIndex]

\* the constructor of a further instance of the same source text
Construct(inIndex) ==
  LET r == RegisterWithDatabase(index, inIndex)
  IN  /\ ninst < MaxInstances
      /\ pass.pc = "idle"
      /\ index' = r.registered
      /\ other' = r.left
      /\ ninst' = ninst + 1
      /\ UNCHANGED <<pass, heads, waiters, saved, opens, answer>>

\* new DbIndex(database, fn) with a live map function
Attach(fn) == Construct(NewIndex(fn))

\* DbIndex.fromJSON(database, descriptor) next to a registered instance
Rehydrate == saved # NoDescriptor /\ Construct(FromJSON(saved))

\* the descriptor of the registered index is persisted
Persist ==
  /\ pass.pc = "idle"
  /\ saved # ToJSON(index)
  /\ saved' = ToJSON(index)
  /\ UNCHANGED <<index, pass, heads, waiters, other, opens, ninst, answer>>

\* the store is reopened: database.indexes is empty and the index is
\* rebuilt from the persisted descriptor, with no live map function
Reopen ==
  /\ opens < MaxOpens
  /\ pass.pc = "idle"
  /\ saved # NoDescriptor
  /\ index' = FromJSON(saved)
  /\ other' = NoInstance
  /\ opens' = opens + 1
  /\ ninst' = 1
  /\ UNCHANGED <<pass, heads, waiters, saved, answer>>

NextReg ==
  \/ \E idIn \in Ids \cup {NoId}, b \in Bodies :
       /\ ncalls < MaxRegOps /\ pass.pc = "idle"
       /\ IssuePut("c1", "db", idIn, b) /\ UNCHANGED rest
  \/ \E id \in Ids :
       /\ ncalls < MaxRegOps /\ pass.pc = "idle"
       /\ IssueDel("c1", "db", id) /\ UNCHANGED rest
  \/ ValidationPasses("c1") /\ UNCHANGED rest
  \/ \E ok \in BOOLEAN : TxnResolves("c1", ok) /\ UNCHANGED rest
  \/ ListenerDone("c1") /\ Recorded("c1")
  \/ Return("c1") /\ UNCHANGED rest
  \/ pass.n < MaxPasses /\ NoCallInFlight /\ UpdateIndex /\ UNCHANGED passFrame
  \/ ChangesReturn /\ UNCHANGED passFrame
  \/ TxnLoad /\ UNCHANGED passFrame
  \/ BulkById /\ UNCHANGED passFrame
  \/ BulkByKey /\ UNCHANGED passFrame
  \/ Finally /\ UNCHANGED passFrame
  \/ NoCallInFlight /\ Attach("byX") /\ UNCHANGED <<storeVars, hist>>
  \/ NoCallInFlight /\ Rehydrate /\ UNCHANGED <<storeVars, hist>>
  \/ NoCallInFlight /\ Persist /\ UNCHANGED <<storeVars, hist>>
  \/ NoCallInFlight /\ Reopen /\ UNCHANGED <<storeVars, hist>>

SpecReg == InitStore /\ [][NextReg]_vars

(***************************************************************************)
(* DbIndex: query.  The index is updated as under one caller; a query      *)
(* without update reads the key-index as the last update left it.          *)
(***************************************************************************)
\* query(query, false): doIndexQuery loads the key-index root and the rows
\* are decoded
Query(query) ==
  /\ answer.n < MaxQueries
  /\ pass.pc = "idle"
  /\ index' = [index EXCEPT !.indexByKey = LoadIndex(@)]
  /\ answer' = [n |-> answer.n + 1, query |-> query,
                rows |-> QueryRows(DoIndexQuery(index.indexByKey, query))]
  /\ UNCHANGED <<pass, heads, waiters, regVars>>

InitQuery == \E fn \in {"byX", "byOne"} : InitWith("none", fn)

NextQuery ==
  \/ \E idIn \in Ids \cup {NoId}, b \in Bodies :
       /\ ncalls < MaxQueryOps /\ pass.pc = "idle"
       /\ IssuePut("c1", "db", idIn, b) /\ UNCHANGED rest
  \/ \E id \in Ids :
       /\ ncalls < MaxQueryOps /\ pass.pc = "idle"
       /\ IssueDel("c1", "db", id) /\ UNCHANGED rest
  \/ ValidationPasses("c1") /\ UNCHANGED rest
  \/ \E ok \in BOOLEAN : TxnResolves("c1", ok) /\ UNCHANGED rest
  \/ ListenerDone("c1") /\ Recorded("c1")
  \/ Return("c1") /\ UNCHANGED rest
  \/ pass.n < MaxPasses /\ NoCallInFlight /\ UpdateIndex /\ UNCHANGED passFrame
  \/ ChangesReturn /\ UNCHANGED passFrame
  \/ TxnLoad /\ UNCHANGED passFrame
  \/ BulkById /\ UNCHANGED passFrame
  \/ BulkByKey /\ UNCHANGED passFrame
  \/ Finally /\ UNCHANGED passFrame
  \/ \E q \in Queries : NoCallInFlight /\ Query(q) /\ UNCHANGED <<storeVars, hist>>

SpecQuery == InitQuery /\ [][NextQuery]_vars

(***************************************************************************)
(* Claims about the document store.                                        *)
(***************************************************************************)
\* no call is in flight
Quiet == \A c \in Callers : calls[c].pc = "idle"

\* the place in hist of the last returned put or del of id, 0 if none
LastOp(id) ==
  LET touched == {j \in 1..Len(hist) : hist[j].id = id}
  IN  IF touched = {} THEN 0 ELSE CHOOSE j \in touched : \A k \in touched : k <= j

\* the ids whose last returned operation is a put
LiveIds == {id \in Ids : LastOp(id) # 0 /\ hist[LastOp(id)].value # Null}

\* C1: under one caller awaiting each call, get(id) returns the value of the
\* last put of id merged with _id = id when the last operation on id was a
\* put, and fails with Not-Found when it was a del or id was never touched.
C1_GetReflectsLastOp ==
  Quiet => \A id \in Ids :
    IF id \in LiveIds
    THEN Get("db", id) =
           [ok |-> TRUE,
            doc |-> [_id |-> id, body |-> hist[LastOp(id)].value, deleted |-> FALSE]]
    ELSE Get("db", id) = NotFound

\* a put of an id, later overwritten, while another id was put and deleted
C1_Witness ==
  /\ Quiet
  /\ Len(hist) = 3
  /\ \E i, j \in 1..3 : i < j /\ hist[i].id = hist[j].id
                        /\ hist[i].value # Null /\ hist[j].value = Null
  /\ LiveIds # {}

\* C2: changesSince() with no prior clock returns exactly one row per live
\* id, with its current value, and no row for an id whose last operation is
\* a del.
C2_SnapshotRowsAreLiveDocs ==
  Quiet =>
    LET rows == ChangesSince("db", NullClock).rows
    IN  /\ \A id \in LiveIds :
             /\ Cardinality({j \in 1..Len(rows) : rows[j].key = id}) = 1
             /\ \A j \in 1..Len(rows) :
                  rows[j].key = id => rows[j].value = hist[LastOp(id)].value /\ ~rows[j].del
        /\ \A j \in 1..Len(rows) : rows[j].key \in LiveIds

\* the clock the store held after the first i returned operations
HeldClock(i) == IF i = 0 THEN <<>> ELSE hist[i].clock

\* the ids put or deleted after the first i returned operations
ChangedAfter(i) == {hist[j].id : j \in (i + 1)..Len(hist)}

\* changesSince(C) has exactly one row per id changed after C, and a row
\* whose id was last put carries that value
RowsPerChangedId(i) ==
  LET rows == ChangesSince("db", HeldClock(i)).rows
  IN  /\ \A id \in ChangedAfter(i) : Cardinality({j \in 1..Len(rows) : rows[j].key = id}) = 1
      /\ \A j \in 1..Len(rows) : rows[j].key \in ChangedAfter(i)
      /\ \A j \in 1..Len(rows) :
           rows[j].key \in LiveIds =>
             rows[j].value = hist[LastOp(rows[j].key)].value /\ ~rows[j].del

\* a row whose id was last deleted is marked as a delete
DeletionsMarked(i) ==
  LET rows == ChangesSince("db", HeldClock(i)).rows
  IN  \A j \in 1..Len(rows) : rows[j].key \notin LiveIds => rows[j].del

\* C3: for every clock C the store held earlier, changesSince(C) returns
\* exactly one row per id put or deleted after C and none for any other id,
\* each with the most recent outcome of its id, a deletion marked as a delete.
C3_ChangesSincePriorClock ==
  Quiet => \A i \in 0..Len(hist) : RowsPerChangedId(i) /\ DeletionsMarked(i)

\* C4: commits on one store are serialized: no event whose commit the store
\* adopted is lost from the current clock, also when two calls overlap.
C4_NoCommittedEventLost ==
  \A s \in Stores : \A e \in committed[s] : e \in Reach(clock[s])

\* C5: a put or del for which the engine returns no result fails leaving the
\* clock as it was before the call and notifying no observer.
C5_FailedCommitLeavesStore ==
  \A c \in Callers :
    calls[c].pc = "failed" =>
      /\ clock[calls[c].store] = calls[c].clock0
      /\ calls[c].ninv = 0
      /\ calls[c].ev = 0

\* a put returned after an earlier call on the same store, which had a
\* listener, failed at the storage layer
C5_Witness ==
  /\ hook["db"] = "none"
  /\ ncalls = 2
  /\ calls["c1"].pc = "done"
  /\ calls["c1"].ninv > 0
  /\ Len(hist) = 1
  /\ clock["db"] = <<1>>

\* the document a hook is shown as the previous one: the last returned put
\* of the id, or {} when there is none or the id was deleted
PreviousDoc(id) ==
  IF id \in LiveIds
  THEN [_id |-> id, body |-> hist[LastOp(id)].value, deleted |-> FALSE]
  ELSE EmptyDoc

\* the document a hook is shown as the new one
PendingDoc(call) ==
  IF call.op = "del" THEN [_id |-> call.id, body |-> Absent, deleted |-> TRUE]
  ELSE [_id |-> call.id, body |-> call.body, deleted |-> FALSE]

\* C6: a call the validation hook rejects fails before the transaction is
\* started: no event is written, the clock is unchanged, no observer is
\* notified; the hook is called with the new document (a tombstone marker
\* for del), the previously stored document or {} and the auth context.
C6_RejectedBeforeCommit ==
  \A c \in Callers :
    LET call == calls[c]
    IN  /\ call.pc = "rejected" =>
             /\ Len(events) = call.nev0
             /\ clock[call.store] = call.clock0
             /\ call.ninv = 0
             /\ call.ev = 0
             /\ call.hargs # <<>>
             /\ HookThrows(hook[call.store], call.hargs[1], call.hargs[2], call.hargs[3])
        /\ call.pc \in {"rejected", "txn"} /\ hook[call.store] # "none" =>
             call.hargs = <<PendingDoc(call), PreviousDoc(call.id), AuthCtx(call.store)>>

\* a del rejected on a store that holds the document and has a listener
C6_Witness ==
  /\ calls["c1"].pc = "rejected"
  /\ calls["c1"].op = "del"
  /\ calls["c1"].hargs[2] # EmptyDoc
  /\ Len(listeners["db"]) > 0
  /\ Len(hist) > 0

\* an observer of commit c has been called and has not settled
Observing(c) == calls[c].pc = "notifying" /\ calls[c].cur # "" /\ calls[c].op \in {"put", "del"}

\* C7: the clock of commit N is the store's clock when its first observer is
\* called, and every observer call for commit N has settled before the first
\* observer call for commit N+1 begins.
C7_NotificationsInCommitOrder ==
  /\ \A c \in Callers : Observing(c) => calls[c].seen = <<calls[c].ev>>
  /\ \A c, d \in Callers : c # d /\ calls[c].store = calls[d].store => ~(Observing(c) /\ Observing(d))

\* a step of a call on instance s
Touches(s) ==
  \E c \in Callers : calls'[c] # calls[c] /\ (calls[c].store = s \/ calls'[c].store = s)

\* C8: a snapshot is pinned to the clock given, or to the store's clock at
\* the call; put, del and setClock on one instance change neither the clock
\* of the other nor what get returns on it.
C8_SnapshotPinned ==
  [][/\ (~exists["snap"] /\ exists'["snap"]) =>
          clock'["snap"] = IF snapArg' = NullClock THEN clock["db"] ELSE snapArg'
     /\ \A s \in Stores :
          (exists[s] /\ ~Touches(s)) =>
             /\ clock'[s] = clock[s]
             /\ \A id \in Ids : Get(s, id)' = Get(s, id)]_vars

\* a snapshot taken of the store's first commit, with no clock given, after
\* the store has moved on and the snapshot has committed nothing
C8_Witness ==
  /\ exists["snap"]
  /\ snapArg = NullClock
  /\ committed["snap"] = {}
  /\ clock["snap"] = <<1>>
  /\ clock["db"] = <<2>>
  /\ \E id \in Ids : Get("snap", id) # Get("db", id)

(***************************************************************************)
(* Claims about the index.                                                 *)
(***************************************************************************)
\* the last updateIndex completed and no put or del has committed since
IndexCurrent ==
  /\ Quiet
  /\ pass.pc = "idle"
  /\ pass.last = "ok"
  /\ index.dbHead = clock["db"]

\* the entries a tree holds once loaded
Entries(ix) == LET lx == LoadIndex(ix) IN IF lx.root = NoTree THEN {} ELSE ContentOf(lx.root)

\* the (k, v) pairs the map function emits for the current value of id
EmittedFor(id) ==
  LET ems == Emits(index.mapFn, MakeDoc(id, hist[LastOp(id)].value))
  IN  {ems[i] : i \in {j \in 1..Len(ems) : ems[j][1] # Undefined /\ ems[j][2] # Undefined}}

ExpectedRows ==
  UNION {{[id |-> id, key |-> em[1], value |-> em[2]] : em \in EmittedFor(id)} : id \in LiveIds}

\* the index was current at the clock returned by the m-th recorded call
UpdatedAt(m) == \E h \in 1..Len(heads) : heads[h] = hist[m].clock

EntriesOfDoc(ix, d) ==
  <<{e \in Entries(ix.indexByKey) : e.key[2] = d}, {e \in Entries(ix.indexById) : e.key = d}>>

SecondCall == pass.pc # "idle" /\ pass.event # NullClock /\ pass.event = pass.rclock

\* C11: an updateIndex issued after an updateIndex with no put, del or
\* setClock between them changes neither root identifier nor dbHead, at any
\* of its steps.
C11_SecondUpdateChangesNothing ==
  [][SecondCall => Roots(index') = Roots(index)]_vars

\* C11 witness: two passes in a row over a materialized index have completed
\* at the same store clock.
C11_Witness ==
  /\ pass.pc = "settled"
  /\ pass.last = "ok"
  /\ Len(heads) >= 2
  /\ heads[Len(heads)] = heads[Len(heads) - 1]
  /\ index.dbHead = clock["db"]
  /\ ScanRows(index.indexByKey) # <<>>

(***************************************************************************)
(* Claims about single-flight updates.                                     *)
(***************************************************************************)
\* caller u calls updateIndex in this step
Calls(u) == waiters[u].pc # "waiting" /\ waiters'[u].pc = "waiting"

\* C12: an updateIndex call issued while a pass is in progress starts no
\* pass and is handed the promise of the running one, and two callers that
\* hold the same promise resume with the same outcome and the same dbHead.
C12_ConcurrentCallsCoalesce ==
  [][/\ \A u \in IndexCallers :
          (Calls(u) /\ InProgress) => (pass' = pass /\ waiters'[u].p = pass.n)
     /\ \A u, v \in IndexCallers :
          (waiters'[u].pc = "done" /\ waiters'[v].pc = "done" /\ waiters'[u].p = waiters'[v].p)
            => (waiters'[u].outcome = waiters'[v].outcome /\ waiters'[u].dbHead = waiters'[v].dbHead)]_vars

\* C12 witness: the second caller called while the pass the first had
\* started was running, and both have resumed after the pass indexed a put.
C12_Witness ==
  /\ waiters["u1"].pc = "done" /\ waiters["u2"].pc = "done"
  /\ waiters["u1"].p = waiters["u2"].p
  /\ waiters["u1"].at = "idle"
  /\ waiters["u2"].at \in {"fetching", "txn", "bulkById", "bulkByKey"}
  /\ waiters["u2"].outcome = "ok"
  /\ waiters["u2"].dbHead # <<>>
  /\ ScanRows(index.indexByKey) # <<>>

\* C13: at most one pass is in progress, the guard is set from the start of
\* a pass until its completion has been handled, and an updateIndex call
\* issued when no pass is in progress, after a success or a failure, starts
\* a new pass.
C13_GuardClearedOnCompletion ==
  [][/\ InProgress => index.updateIndexPromise
     /\ pass.pc = "idle" => ~index.updateIndexPromise
     /\ \A u \in IndexCallers :
          (Calls(u) /\ ~InProgress) => (pass'.n = pass.n + 1 /\ waiters'[u].p = pass.n + 1)]_vars

\* C18: a caller whose pass failed finds both root identifiers and dbHead as
\* they were when it started the pass.
C18_FailedPassLeavesIndex ==
  [][\A u \in IndexCallers :
       (waiters[u].pc = "waiting" /\ waiters'[u].pc = "done" /\ waiters[u].at = "idle"
          /\ waiters'[u].outcome # "ok")
         => Roots(index) = waiters[u].before]_vars


(***************************************************************************)
(* Claims about the registry and rehydrated indexes.                       *)
(***************************************************************************)
\* the registered index is the one rebuilt from the descriptor at reopening
Rehydrated == opens >= 1 /\ ninst = 1 /\ index.mapFn = NoMapFn

\* a live instance has been attached over the rehydrated one, and no other
Attached == opens >= 1 /\ ninst = 2 /\ index.mapFn # NoMapFn

\* C14: an update of an index rehydrated from a descriptor that has changes
\* to process fails with the MissingMapFunction error, and once an instance
\* with a live map function of the same source text is attached an update
\* succeeds and leaves the rows of an up-to-date index.
C14_MissingThenAttached ==
  [][/\ (Rehydrated /\ pass.pc = "txn" /\ pass'.pc # "txn")
          => (pass'.pc = "settled" /\ pass'.last = "MissingMapFunction")
     /\ (Attached /\ pass.pc # "settled" /\ pass'.pc = "settled")
          => /\ pass'.last = "ok"
             /\ LET rows == ScanRows(index'.indexByKey)
                IN  {rows[i] : i \in 1..Len(rows)} = ExpectedRows]_vars

\* the position of a clock in the sequence of clocks the store has held
ClockRank(c) == IF c = <<>> THEN 0 ELSE c[1]

\* the step leaves the registered instance the same object
SameInstance == opens' = opens /\ (ninst' = ninst \/ index.mapFn # NoMapFn)

\* C15: the dbHead of an index instance, once set, is never reset to null
\* and never moves to an earlier clock of the store, whatever put, del,
\* update or registration of a further instance happens.
C15_DbHeadOnlyAdvances ==
  [][(SameInstance /\ index.dbHead # NullClock)
       => /\ index'.dbHead # NullClock
          /\ ClockRank(index.dbHead) <= ClockRank(index'.dbHead)]_vars

\* a further instance of the source text is constructed and registered
Registration == opens' = opens /\ ninst' = ninst + 1

\* C16: when an instance is registered whose source text is present, the
\* registry entry holds a live map function if either instance does, both
\* instances have the same dbHead and root identifiers afterwards, and an
\* entry with a live function is never replaced (it keeps its function and
\* its loaded roots).
C16_LiveInstanceWins ==
  [][Registration
       => /\ other'.mapFn # NoMapFn => index'.mapFn # NoMapFn
          /\ Roots(index') = Roots(other')
          /\ index.mapFn # NoMapFn
               => /\ index'.mapFn = index.mapFn
                  /\ index'.indexById.root = index.indexById.root
                  /\ index'.indexByKey.root = index.indexByKey.root]_vars

\* a live instance has entered the registry over a rehydrated one and holds
\* the dbHead and roots of an index that had entries
C16_Witness ==
  /\ Attached
  /\ other.mapFn = NoMapFn
  /\ index.dbHead \notin {NullClock, <<>>}
  /\ index.indexByKey.cid # NoTree
  /\ Roots(index) = Roots(other)

(***************************************************************************)
(* Claims about queries.                                                   *)
(***************************************************************************)
\* the same query with no limit given
Unlimited(query) == QueryOf(query.has \ {"limit"}, query.range, query.key, 0)

\* the first n elements of a sequence, all of them when it has fewer
FirstRows(rows, n) == SubSeq(rows, 1, IF n < Len(rows) THEN n ELSE Len(rows))

\* C17: for a range, key or scan query with a limit n the rows returned are
\* the first n rows of what the same query returns with no limit, and with
\* no limit every row is returned.
C17_LimitKeepsFirstRows ==
  [][answer'.n = answer.n + 1
       => LET query == answer'.query
              all == QueryRows(DoIndexQuery(index.indexByKey, Unlimited(query)))
          IN  answer'.rows = IF "limit" \in query.has THEN FirstRows(all, query.limit) ELSE all]_vars

(***************************************************************************)
(* Claims about observers.                                                 *)
(***************************************************************************)
\* the observers a notification has still to invoke: the entries of the
\* set after the place of its iterator
RemainingOf(L, call) == SubSeq(L, call.pos + 1, Len(L))

\* the step invokes an observer for the notification of caller c
Invokes(c) == calls'[c].pc = "notifying" /\ calls'[c].ninv = calls[c].ninv + 1

\* caller c is awaiting the same observer call before and after the step
Awaiting(c) ==
  /\ calls[c].pc = "notifying" /\ calls[c].cur # ""
  /\ calls'[c].pc = "notifying" /\ calls'[c].ninv = calls[c].ninv

\* C19: a notification invokes the observers registered at its start, once
\* each and in registration order: the observer invoked next is the first of
\* those still to invoke and is registered when invoked, and a registration
\* or an unregistration made while an observer is awaited leaves the
\* observers still to invoke as they were.
C19_NotificationSnapshotsObservers ==
  [][\A c \in Callers :
       LET s == calls'[c].store
       IN  /\ Invokes(c) =>
                /\ IsLive(s, calls'[c].cur)
                /\ calls'[c].cur =
                     IF calls[c].pc = "notifying"
                     THEN Head(RemainingOf(listeners[s], calls[c]))
                     ELSE Head(listeners[s])
           /\ Awaiting(c) =>
                RemainingOf(listeners'[s], calls'[c]) = RemainingOf(listeners[s], calls[c])]_vars

(***************************************************************************)
(* Claims about one-to-many map functions.                                 *)
(***************************************************************************)
\* an earlier value of document d, indexed by an update before the last
\* put or del of d, made the map function emit several keys
EmittedSeveral(d) ==
  \E m \in 1..Len(hist) :
    /\ m < LastOp(d)
    /\ hist[m].id = d
    /\ hist[m].value # Null
    /\ UpdatedAt(m)
    /\ Len(Emits(index.mapFn, MakeDoc(d, hist[m].value))) > 1

\* the (key, value) pairs the key-index holds for document d
KeyIndexPairs(d) ==
  {<<Decode(e.key[1]), e.value>> : e \in {x \in Entries(index.indexByKey) : x.key[2] = d}}

\* C20: when an earlier value of a document made the map function emit
\* several keys, an update that processes a later put or del of the document
\* removes all of them: the key-index entries of the document are then
\* exactly the emissions of its current value, none when it is deleted.
C20_AllEarlierEmissionsRemoved ==
  IndexCurrent =>
    \A d \in Ids :
      EmittedSeveral(d) => KeyIndexPairs(d) = (IF d \in LiveIds THEN EmittedFor(d) ELSE {})

(***************************************************************************)
(* Claims about updates of an index whose trees are empty.                 *)
(***************************************************************************)
\* C22: with a live map function attached, no update fails, whatever puts,
\* dels and updates came before: also the update that has changes to
\* process after an earlier update set dbHead and created no root.
C22_UpdateNeverFails ==
  index.mapFn # NoMapFn => pass.last \in {"", "ok"}

(***************************************************************************)
(* Claims about updates that run next to commits.                          *)
(***************************************************************************)
\* the rows of an index that reflects every change committed at or before
\* clock clk: the emissions of the documents that are live at clk
ExpectedRowsAt(clk) ==
  UNION {LET ems == Emits(index.mapFn, MakeDoc(id, Root(clk)[id]))
         IN  {[id |-> id, key |-> ems[i][1], value |-> ems[i][2]] :
                i \in {j \in 1..Len(ems) : ems[j][1] # Undefined /\ ems[j][2] # Undefined}}
         : id \in {d \in Ids : Root(clk)[d] \notin {Absent, Null}}}

\* the rows a scan of the key-index returns, as a set
RowSet(ix) == LET rows == ScanRows(ix.indexByKey) IN {rows[i] : i \in 1..Len(rows)}

\* C21: the clock changesSince returns, which the update stores as dbHead,
\* is the clock its rows were computed against, whatever commits while the
\* diff is fetched; so when an update has completed the key-index reflects
\* every change committed at or before dbHead.
C21_DbHeadIsClockOfRows ==
  [][/\ (pass.pc = "fetching" /\ pass'.pc = "txn") => pass'.clock = pass.rclock
     /\ (pass.pc = "fetching" /\ pass'.pc = "settled") => index'.dbHead = pass.rclock
     /\ (pass.pc # "settled" /\ pass'.pc = "settled" /\ pass'.last = "ok")
          => RowSet(index') = ExpectedRowsAt(index'.dbHead)]_vars

\* C23: a query with update enabled that resumes from a successful update
\* reads rows that reflect every put and del that had returned when the
\* query was called (the rows of the store at that clock or at a later one),
\* also when it was called while a pass was in progress.
C23_QueryReflectsReturnedCalls ==
  [][\A u \in IndexCallers :
       (waiters[u].pc = "waiting" /\ waiters'[u].pc = "done" /\ waiters'[u].outcome = "ok")
         => \E e \in ClockRank(waiters[u].since)..Len(events) :
              RowSet(index) = ExpectedRowsAt(IF e = 0 THEN <<>> ELSE <<e>>)]_vars
====
